---------------------------- MODULE Spec2Model ----------------------------
(***************************************************************************)
(* Model of the PPTX Generator Service (src/app.py, the local-template     *)
(* variant, and src/api/app.py, the remote-template variant).              *)
(*                                                                         *)
(* Text is a sequence of one-character strings.  A Python value that may   *)
(* be None, a str or an int is a record [kind, s, n].                      *)
(*                                                                         *)
(*   SpecDate  format_date_dd_mm_yyyy on bounded input strings             *)
(*   SpecMap   the Field Mapping built by the four endpoints               *)
(*   SpecRun   the per-run substitution loop of replace_placeholders       *)
(*   SpecPass  the per-shape loop of replace_placeholders, with faults     *)
(*   Spec      concurrent /generate-pptx and /generate-pdf requests        *)
(***************************************************************************)
EXTENDS Integers, Sequences, FiniteSets, TLC

VARIABLES
    value, result,                          \* SpecDate
    payload, built,                         \* SpecMap
    mapping, para, orig, idx, split,        \* SpecRun
    doc, origDoc, pos, faulted, raised,     \* SpecPass
    variant, fs, reqs, foreign              \* Spec

vars == <<value, result, payload, built, mapping, para, orig, idx, split,
          doc, origDoc, pos, faulted, raised, variant, fs, reqs, foreign>>

dateVars == <<value, result>>
mapVars  == <<payload, built>>
runVars  == <<para, orig, idx, split>>
passVars == <<doc, origDoc, pos, faulted, raised>>
reqVars  == <<variant, fs, reqs, foreign>>

notDate == <<mapVars, mapping, runVars, passVars, reqVars>>
notMap  == <<dateVars, mapping, runVars, passVars, reqVars>>
notRun  == <<dateVars, mapVars, passVars, reqVars>>
notPass == <<dateVars, mapVars, runVars, reqVars>>
notReq  == <<dateVars, mapVars, mapping, runVars, passVars>>

-----------------------------------------------------------------------------
(* Python values *)

None == [kind |-> "None", s |-> <<>>, n |-> 0]

StrVal(t) == [kind |-> "str", s |-> t, n |-> 0]

IntVal(k) == [kind |-> "int", s |-> <<>>, n |-> k]

Digits == {"0", "1", "2", "3", "4", "5", "6", "7", "8", "9"}

Whitespace == {" "}

Separators == {"-", "/"}

DigitChar(d) ==
    CASE d = 0 -> "0" [] d = 1 -> "1" [] d = 2 -> "2" [] d = 3 -> "3"
      [] d = 4 -> "4" [] d = 5 -> "5" [] d = 6 -> "6" [] d = 7 -> "7"
      [] d = 8 -> "8" [] d = 9 -> "9"

RECURSIVE NatToStr(_)
NatToStr(k) == IF k < 10 THEN <<DigitChar(k)>>
               ELSE NatToStr(k \div 10) \o <<DigitChar(k % 10)>>

\* str(value) of a str or an int
PyStr(v) == IF v.kind = "int"
            THEN (IF v.n < 0 THEN <<"-">> \o NatToStr(-v.n) ELSE NatToStr(v.n))
            ELSE v.s

-----------------------------------------------------------------------------
(* Date Normalizer: format_date_dd_mm_yyyy *)

MaxLen == 8

\* One digit, both separators and a whitespace character; a blank inside the
\* string stands for any character that is neither digit nor separator.
DateChars == {"1", "-", "/", " "}

RECURSIVE LStrip(_)
LStrip(t) == IF t # <<>> /\ Head(t) \in Whitespace THEN LStrip(Tail(t)) ELSE t

RECURSIVE RStrip(_)
RStrip(t) == IF t # <<>> /\ t[Len(t)] \in Whitespace
             THEN RStrip(SubSeq(t, 1, Len(t) - 1)) ELSE t

\* A plausible slip: only the leading whitespace is removed.
StripLeftOnly(t) == LStrip(t)

\* str.strip()
Strip(t) == RStrip(LStrip(t))

DigitsAt(t, i, k) == i + k - 1 <= Len(t) /\ \A j \in 0..(k - 1) : t[i + j] \in Digits

SepAt(t, i) == i <= Len(t) /\ t[i] \in Separators

\* (\d{4})[-/](\d{a})[-/](\d{b}) matched at position i
TryMatch(t, i, a, b) ==
    /\ DigitsAt(t, i, 4)
    /\ SepAt(t, i + 4)
    /\ DigitsAt(t, i + 5, a)
    /\ SepAt(t, i + 5 + a)
    /\ DigitsAt(t, i + 6 + a, b)

MatchStarts(t) == {i \in 1..Len(t) : \E a, b \in 1..2 : TryMatch(t, i, a, b)}

NoMatch == [found |-> FALSE, yyyy |-> <<>>, mm |-> <<>>, dd |-> <<>>]

\* re.search: the leftmost match, each \d{1,2} greedy with backtracking
ReSearch(t) ==
    IF MatchStarts(t) = {} THEN NoMatch
    ELSE LET i == CHOOSE m \in MatchStarts(t) : \A o \in MatchStarts(t) : m <= o
             a == IF \E b \in 1..2 : TryMatch(t, i, 2, b) THEN 2 ELSE 1
             b == IF TryMatch(t, i, a, 2) THEN 2 ELSE 1
         IN [found |-> TRUE,
             yyyy  |-> SubSeq(t, i, i + 3),
             mm    |-> SubSeq(t, i + 5, i + 4 + a),
             dd    |-> SubSeq(t, i + 6 + a, i + 5 + a + b)]

RECURSIVE ZFill(_, _)
ZFill(t, w) == IF Len(t) >= w THEN t ELSE ZFill(<<"0">> \o t, w)

format_date_dd_mm_yyyy(v) ==
    IF v = None THEN None
    ELSE LET t == Strip(PyStr(v))
             m == ReSearch(t)
         IN IF ~m.found THEN StrVal(t)
            ELSE StrVal(ZFill(m.dd, 2) \o <<"-">> \o ZFill(m.mm, 2) \o <<"-">> \o m.yyyy)

NotCalled == [kind |-> "NotCalled", s |-> <<>>, n |-> 0]

DateIdle == value = None /\ result = NotCalled

DateInit == value \in {None, StrVal(<<>>)} /\ result = NotCalled

\* The caller supplies one more character of the input string.
DateAppend ==
    /\ value # None
    /\ result = NotCalled
    /\ Len(value.s) < MaxLen
    /\ \E c \in DateChars : value' = StrVal(Append(value.s, c))
    /\ UNCHANGED result
    /\ UNCHANGED notDate

DateCall ==
    /\ result = NotCalled
    /\ result' = format_date_dd_mm_yyyy(value)
    /\ UNCHANGED value
    /\ UNCHANGED notDate


-----------------------------------------------------------------------------
(* Field Mapping built by the request handlers *)

Fields == {"SERVICE_CODE", "ID_NUMBER", "NAME_AR", "NAME_EN", "DAYS_COUNT",
           "ENTRY_DATE_GREGORIAN", "EXIT_DATE_GREGORIAN", "ENTRY_DATE_HIJRI",
           "EXIT_DATE_HIJRI", "REPORT_ISSUE_DATE", "NATIONALITY_AR",
           "NATIONALITY_EN", "DOCTOR_NAME_AR", "DOCTOR_NAME_EN", "JOB_TITLE_AR",
           "JOB_TITLE_EN", "HOSPITAL_NAME_AR", "HOSPITAL_NAME_EN", "PRINT_DATE",
           "PRINT_TIME"}

DateFields == {"ENTRY_DATE_GREGORIAN", "EXIT_DATE_GREGORIAN", "ENTRY_DATE_HIJRI",
               "EXIT_DATE_HIJRI", "REPORT_ISSUE_DATE", "PRINT_DATE"}

OptionalFields == {"ENTRY_DATE_HIJRI", "EXIT_DATE_HIJRI"}

DateSamples == {StrVal(<<"2", "0", "2", "4", "-", "3", "-", "5">>),
                StrVal(<<" ", "n", "/", "a">>)}

\* ReportPayload: the values pydantic accepts for the date-typed fields; the
\* other fields carry one fixed value each
Payloads ==
    {[f \in Fields |-> IF f \in DateFields THEN d[f]
                       ELSE IF f = "DAYS_COUNT" THEN IntVal(14)
                       ELSE StrVal(<<"x">>)] :
        d \in {e \in [DateFields -> DateSamples \cup {None}] :
                  \A f \in DateFields \ OptionalFields : e[f] # None}}

\* src/app.py generate_pptx: every field is copied as is
MappingLocalPptx(p) == [f \in Fields |-> p[f]]

\* src/app.py generate_pdf: every field is copied as is
MappingLocalPdf(p) == [f \in Fields |-> p[f]]

\* src/api/app.py generate_pptx: all six date fields are normalised
MappingRemotePptx(p) ==
    [f \in Fields |->
        IF f \in {"ENTRY_DATE_GREGORIAN", "EXIT_DATE_GREGORIAN", "ENTRY_DATE_HIJRI",
                  "EXIT_DATE_HIJRI", "REPORT_ISSUE_DATE", "PRINT_DATE"}
        THEN format_date_dd_mm_yyyy(p[f]) ELSE p[f]]

\* src/api/app.py generate_pdf: the two Hijri fields are copied as is
MappingRemotePdf(p) ==
    [f \in Fields |->
        IF f \in {"ENTRY_DATE_GREGORIAN", "EXIT_DATE_GREGORIAN",
                  "REPORT_ISSUE_DATE", "PRINT_DATE"}
        THEN format_date_dd_mm_yyyy(p[f]) ELSE p[f]]

Handlers == {"local_pptx", "local_pdf", "remote_pptx", "remote_pdf"}

NotBuilt == [made |-> FALSE, mapping |-> None]

MapIdle == payload = None /\ built = None

MapInit ==
    /\ payload \in Payloads
    /\ built = [h \in Handlers |-> NotBuilt]

BuildLocalPptx ==
    /\ ~built["local_pptx"].made
    /\ built' = [built EXCEPT !["local_pptx"] =
                    [made |-> TRUE, mapping |-> MappingLocalPptx(payload)]]
    /\ UNCHANGED payload
    /\ UNCHANGED notMap

BuildLocalPdf ==
    /\ ~built["local_pdf"].made
    /\ built' = [built EXCEPT !["local_pdf"] =
                    [made |-> TRUE, mapping |-> MappingLocalPdf(payload)]]
    /\ UNCHANGED payload
    /\ UNCHANGED notMap

BuildRemotePptx ==
    /\ ~built["remote_pptx"].made
    /\ built' = [built EXCEPT !["remote_pptx"] =
                    [made |-> TRUE, mapping |-> MappingRemotePptx(payload)]]
    /\ UNCHANGED payload
    /\ UNCHANGED notMap

BuildRemotePdf ==
    /\ ~built["remote_pdf"].made
    /\ built' = [built EXCEPT !["remote_pdf"] =
                    [made |-> TRUE, mapping |-> MappingRemotePdf(payload)]]
    /\ UNCHANGED payload
    /\ UNCHANGED notMap

-----------------------------------------------------------------------------
(* Placeholder Substitution Engine: the per-run loop of replace_placeholders *)

MaxCtx == 1

\* Two mapping keys stand for the twenty field names; KeyOrder is the order
\* in which mapping.items() yields them.
KeyOrder == << <<"A">>, <<"B">> >>

Keys == {KeyOrder[i] : i \in 1..Len(KeyOrder)}

\* The literal {{FIELD_NAME}} as the template document carries it
Placeholder(key) == <<"{", "{">> \o key \o <<"}", "}">>

\* A plausible slip in the f-string: one brace pair too few, giving {KEY}.
TokenSingleBrace(key) == <<"{">> \o key \o <<"}">>

\* f"{{{{{key}}}}}"
Token(key) == <<"{", "{">> \o key \o <<"}", "}">>

\* str(value) if value is not None else ""
ValueText(v) == IF v = None THEN <<>> ELSE PyStr(v)

\* str.replace(old, new) for a non-empty old: leftmost, non-overlapping
RECURSIVE Replace(_, _, _)
Replace(t, old, new) ==
    IF Len(t) < Len(old) THEN t
    ELSE IF SubSeq(t, 1, Len(old)) = old
         THEN new \o Replace(SubSeq(t, Len(old) + 1, Len(t)), old, new)
         ELSE <<Head(t)>> \o Replace(Tail(t), old, new)

\* for key, value in <items in the given order>: new_text = new_text.replace(...)
RECURSIVE ScanItems(_, _, _)
ScanItems(t, m, order) ==
    IF order = <<>> THEN t
    ELSE ScanItems(Replace(t, Token(Head(order)), ValueText(m[Head(order)])),
                   m, Tail(order))

\* the new_text of one run
NewText(t, m) == ScanItems(t, m, KeyOrder)

\* if new_text != text: run.text = new_text  (the font is not assigned)
SubstRun(run, m) ==
    LET new_text == NewText(run.text, m)
    IN IF new_text # run.text THEN [run EXCEPT !.text = new_text] ELSE run

CtxPieces == {Placeholder(k) : k \in Keys} \cup {<<"{">>, <<"}">>, <<"A">>}

RECURSIVE Texts(_)
Texts(k) == IF k = 0 THEN {<<>>}
            ELSE Texts(k - 1) \cup {t \o q : t \in Texts(k - 1), q \in CtxPieces}

\* Request-supplied values: absent, an integer, brace characters, and strings
\* that are themselves placeholder-shaped
Values == {None, IntVal(12), StrVal(<<"{">>), StrVal(<<"}">>), StrVal(<<"{", "{">>)}
              \cup {StrVal(Placeholder(k)) : k \in Keys}

NoSplit == [key |-> <<>>, cut |-> 0]

RunIdle ==
    /\ para = <<>>
    /\ orig = <<>>
    /\ idx = 0
    /\ split = NoSplit

\* A paragraph of two runs: a placeholder sits at every position relative to
\* the run boundary (cut characters of it end the first run, the rest start
\* the second), between arbitrary context texts.
RunInit ==
    /\ mapping \in [Keys -> Values]
    /\ \E k \in Keys, x \in Texts(MaxCtx), y \in Texts(MaxCtx) :
         \E c \in 0..Len(Placeholder(k)) :
            /\ split = [key |-> k, cut |-> c]
            /\ para = << [text |-> x \o SubSeq(Placeholder(k), 1, c),
                          font |-> "bold"],
                         [text |-> SubSeq(Placeholder(k), c + 1, Len(Placeholder(k))) \o y,
                          font |-> "red"] >>
    /\ orig = para
    /\ idx = 0

\* one iteration of `for run in paragraph.runs`
SubstituteRun ==
    /\ idx < Len(para)
    /\ idx' = idx + 1
    /\ para' = [para EXCEPT ![idx + 1] = SubstRun(para[idx + 1], mapping)]
    /\ UNCHANGED <<mapping, orig, split>>
    /\ UNCHANGED notRun

-----------------------------------------------------------------------------
(* Placeholder Substitution Engine: the per-shape loop, with faulty shapes *)

MaxShapes == 2

Picture == [has_text_frame |-> FALSE, paragraphs |-> <<>>]

TextBox ==
    [has_text_frame |-> TRUE,
     paragraphs |-> << << [text |-> Placeholder(<<"A">>), font |-> "bold"],
                          [text |-> <<"n">>, font |-> "red"] >>,
                       << [text |-> <<"b">> \o Placeholder(<<"B">>), font |-> "red"] >> >>]

ShapeSamples == {Picture, TextBox}

RECURSIVE ShapeSeqs(_)
ShapeSeqs(k) == IF k = 0 THEN {<<>>}
                ELSE ShapeSeqs(k - 1)
                        \cup {Append(q, h) : q \in ShapeSeqs(k - 1), h \in ShapeSamples}

PassMappings == {[k \in Keys |-> IF k = <<"A">> THEN IntVal(12) ELSE None],
                 [k \in Keys |-> StrVal(<<"v">>)]}

\* The shape runs up to, not including, run r of paragraph p have been
\* substituted; the rest of the shape is as it was.
SubstUpTo(shape, m, p, r) ==
    [shape EXCEPT !.paragraphs =
        [i \in 1..Len(shape.paragraphs) |->
            [j \in 1..Len(shape.paragraphs[i]) |->
                IF i < p \/ (i = p /\ j < r)
                THEN SubstRun(shape.paragraphs[i][j], m)
                ELSE shape.paragraphs[i][j]]]]

\* the body of the try block, when nothing raises
SubstShape(shape, m) ==
    IF shape.has_text_frame
    THEN SubstUpTo(shape, m, Len(shape.paragraphs) + 1, 1)
    ELSE shape

\* Where the body of the try block can raise: on the text-frame test, on
\* reading a run's text, on assigning a run's text (reached only when the new
\* text differs).
FaultPoints(shape, m) ==
    {[at |-> "frame", p |-> 1, r |-> 1]}
      \cup UNION {UNION {{[at |-> "read", p |-> i, r |-> j]}
                           \cup (IF NewText(shape.paragraphs[i][j].text, m)
                                       # shape.paragraphs[i][j].text
                                 THEN {[at |-> "write", p |-> i, r |-> j]} ELSE {}) :
                         j \in 1..Len(shape.paragraphs[i])} :
                    i \in 1..Len(shape.paragraphs)}

\* the next iteration of `for slide ...: for shape in slide.shapes`
RECURSIVE SkipEmpty(_, _)
SkipEmpty(d, q) ==
    IF q.slide > Len(d) THEN [slide |-> Len(d) + 1, shape |-> 1]
    ELSE IF q.shape > Len(d[q.slide]) THEN SkipEmpty(d, [slide |-> q.slide + 1, shape |-> 1])
    ELSE q

NextShape(d, q) == SkipEmpty(d, [slide |-> q.slide, shape |-> q.shape + 1])

PassEnd(d) == [slide |-> Len(d) + 1, shape |-> 1]

\* A plausible slip: the handler lets the error out of replace_placeholders.
ExceptReraise(d, q) == [pos |-> PassEnd(d), raised |-> TRUE]

\* except Exception: continue
ExceptContinue(d, q) == [pos |-> NextShape(d, q), raised |-> FALSE]

PassIdle ==
    /\ doc = <<>>
    /\ origDoc = <<>>
    /\ pos = [slide |-> 1, shape |-> 1]
    /\ faulted = {}
    /\ raised = FALSE

PassInit ==
    /\ doc \in [1..2 -> ShapeSeqs(MaxShapes)]
    /\ origDoc = doc
    /\ pos = SkipEmpty(doc, [slide |-> 1, shape |-> 1])
    /\ faulted = {}
    /\ raised = FALSE

\* one iteration of the shape loop in which nothing raises
ProcessShape ==
    /\ pos # PassEnd(doc)
    /\ doc' = [doc EXCEPT ![pos.slide][pos.shape] = SubstShape(@, mapping)]
    /\ pos' = NextShape(doc, pos)
    /\ UNCHANGED <<origDoc, faulted, raised, mapping>>
    /\ UNCHANGED notPass

\* one iteration of the shape loop in which the try block raises at f
ProcessShapeFault ==
    /\ pos # PassEnd(doc)
    /\ \E f \in FaultPoints(doc[pos.slide][pos.shape], mapping) :
          /\ doc' = [doc EXCEPT ![pos.slide][pos.shape] =
                        IF f.at = "frame" THEN @ ELSE SubstUpTo(@, mapping, f.p, f.r)]
    /\ faulted' = faulted \cup {pos}
    /\ pos' = ExceptContinue(doc, pos).pos
    /\ raised' = ExceptContinue(doc, pos).raised
    /\ UNCHANGED <<origDoc, mapping>>
    /\ UNCHANGED notPass

-----------------------------------------------------------------------------
(* Request Handler and Document Converter: concurrent requests of one       *)
(* service variant sharing the scratch directory                            *)

MaxReqs == 2

MaxNames == 2

Reqs == 1..MaxReqs

\* the random base names NamedTemporaryFile can draw
Names == 1..MaxNames

Variants == {"local", "remote"}

PptxType == "application/vnd.openxmlformats-officedocument.presentationml.presentation"

PdfType == "application/pdf"

\* A file's content is the number of the request whose filled document it
\* holds (a .pptx) or was converted from (a .pdf); 0: the path does not exist.
NoFile == 0

IdleReq ==
    [pc |-> "idle", endpoint |-> "none", tmp |-> 0, pdf_bytes |-> 0,
     converted |-> FALSE, exc |-> "", tried |-> {},
     status |-> 0, body |-> 0, media_type |-> "", detail |-> "",
     logged |-> FALSE, failure |-> ""]

\* raise HTTPException(status_code=500, detail=...) leaving the handler
\* through `except HTTPException: raise`, or raised outside the try block
RaiseHTTP(rq, why) ==
    [rq EXCEPT !.pc = "done", !.status = 500, !.detail = why, !.failure = why]

\* except Exception as e: print(...); traceback.print_exc();
\* raise HTTPException(status_code=500, detail=str(e))
LogAndRaise(rq, why, text) ==
    [rq EXCEPT !.pc = "done", !.status = 500, !.detail = text, !.failure = why,
               !.logged = TRUE]

ReqIdle ==
    /\ variant = "none"
    /\ fs = <<>>
    /\ reqs = <<>>
    /\ foreign = {}

ReqInit ==
    /\ variant \in Variants
    /\ fs = [pptx |-> [n \in Names |-> NoFile], pdf |-> [n \in Names |-> NoFile]]
    /\ reqs = [r \in Reqs |-> IdleReq]
    /\ foreign = {}

\* a validated POST reaches generate_pptx or generate_pdf
Start(r) ==
    /\ reqs[r].pc = "idle"
    /\ \E ep \in {"pptx", "pdf"} :
          reqs' = [reqs EXCEPT ![r].pc = "load", ![r].endpoint = ep]
    /\ UNCHANGED <<variant, fs, foreign>>
    /\ UNCHANGED notReq

\* get_template_path / Presentation(...)  and  load_template_presentation
LoadTemplate(r) ==
    /\ reqs[r].pc = "load"
    /\ \/ reqs' = [reqs EXCEPT ![r].pc = "fill"]
       \/ \* the template cannot be parsed: an ordinary exception inside the try
          reqs' = [reqs EXCEPT ![r] = LogAndRaise(@, "template_corrupt", "template_corrupt")]
       \/ \* the template is missing or cannot be fetched: an HTTPException
          reqs' = [reqs EXCEPT ![r] =
                      IF variant = "remote" /\ reqs[r].endpoint = "pptx"
                      THEN LogAndRaise(@, "template_missing", "str(HTTPException)")
                      ELSE RaiseHTTP(@, "template_missing")]
    /\ UNCHANGED <<variant, fs, foreign>>
    /\ UNCHANGED notReq

\* generate_pptx: replace_placeholders, prs.save(buf), StreamingResponse
SavePptx(r) ==
    /\ reqs[r].pc = "fill"
    /\ reqs[r].endpoint = "pptx"
    /\ \/ reqs' = [reqs EXCEPT ![r].pc = "done", ![r].status = 200, ![r].body = r,
                               ![r].media_type = PptxType]
       \/ reqs' = [reqs EXCEPT ![r] = LogAndRaise(@, "save_error", "save_error")]
    /\ UNCHANGED <<variant, fs, foreign>>
    /\ UNCHANGED notReq

\* generate_pdf: replace_placeholders, then
\* with NamedTemporaryFile(suffix=".pptx", delete=False): prs.save(tmp_pptx.name)
ScratchWrite(r) ==
    /\ reqs[r].pc = "fill"
    /\ reqs[r].endpoint = "pdf"
    /\ \E n \in Names :
          /\ fs.pptx[n] = NoFile
          /\ fs' = [fs EXCEPT !.pptx[n] = r]
          /\ \/ reqs' = [reqs EXCEPT ![r].pc = "resolve", ![r].tmp = n]
             \/ reqs' = [reqs EXCEPT ![r] =
                            LogAndRaise([@ EXCEPT !.tmp = n], "save_error", "save_error")]
    /\ UNCHANGED <<variant, foreign>>
    /\ UNCHANGED notReq

\* soffice_path = os.getenv(...) or shutil.which(...) or shutil.which(...)
ResolveConverter(r) ==
    /\ reqs[r].pc = "resolve"
    /\ \/ reqs' = [reqs EXCEPT ![r].pc = "convert"]
       \/ reqs' = [reqs EXCEPT ![r] = RaiseHTTP(@, "soffice_missing")]
    /\ UNCHANGED <<variant, fs, foreign>>
    /\ UNCHANGED notReq

\* subprocess.run(cmd): soffice writes <name>.pdf beside <name>.pptx, or exits
\* 0 without writing it, or exits non-zero
RunConverter(r) ==
    /\ reqs[r].pc = "convert"
    /\ \/ /\ fs' = [fs EXCEPT !.pdf[reqs[r].tmp] = fs.pptx[reqs[r].tmp]]
          /\ reqs' = [reqs EXCEPT ![r].pc = "exists", ![r].converted = TRUE]
       \/ /\ reqs' = [reqs EXCEPT ![r].pc = "exists"]
          /\ UNCHANGED fs
       \/ /\ reqs' = [reqs EXCEPT ![r] = RaiseHTTP(@, "nonzero_exit")]
          /\ UNCHANGED fs
    /\ UNCHANGED <<variant, foreign>>
    /\ UNCHANGED notReq

\* if not produced_pdf.exists(): raise RuntimeError(...)
CheckProduced(r) ==
    /\ reqs[r].pc = "exists"
    /\ reqs' = [reqs EXCEPT ![r] =
                   IF fs.pdf[reqs[r].tmp] # NoFile THEN [@ EXCEPT !.pc = "read"]
                   ELSE RaiseHTTP(@, "pdf_absent")]
    /\ UNCHANGED <<variant, fs, foreign>>
    /\ UNCHANGED notReq

\* with open(produced_pdf, "rb") as f: pdf_bytes = f.read()
ReadProduced(r) ==
    /\ reqs[r].pc = "read"
    /\ reqs' = [reqs EXCEPT ![r] =
                   IF fs.pdf[reqs[r].tmp] # NoFile
                   THEN [@ EXCEPT !.pc = IF variant = "local" THEN "stream" ELSE "rm_pptx",
                                  !.pdf_bytes = fs.pdf[reqs[r].tmp]]
                   ELSE RaiseHTTP(@, "pdf_vanished")]
    /\ foreign' = foreign \cup
          (IF fs.pdf[reqs[r].tmp] \notin {NoFile, r}
           THEN {[by |-> r, of |-> fs.pdf[reqs[r].tmp], op |-> "read"]} ELSE {})
    /\ UNCHANGED <<variant, fs>>
    /\ UNCHANGED notReq

\* src/app.py only: open(tmp_pdf_path, "rb") names an undefined variable;
\* the NameError passes through the finally block
StreamPdf(r) ==
    /\ reqs[r].pc = "stream"
    /\ reqs' = [reqs EXCEPT ![r].pc = "rm_pptx", ![r].exc = "NameError"]
    /\ UNCHANGED <<variant, fs, foreign>>
    /\ UNCHANGED notReq

\* try: os.remove(tmp_pptx_path) except Exception: pass
RemovePptx(r) ==
    /\ reqs[r].pc = "rm_pptx"
    /\ fs' = [fs EXCEPT !.pptx[reqs[r].tmp] = NoFile]
    /\ reqs' = [reqs EXCEPT ![r].pc = "rm_pdf", ![r].tried = @ \cup {"pptx"}]
    /\ UNCHANGED <<variant, foreign>>
    /\ UNCHANGED notReq

\* try: os.remove(Path(tmp_pptx_path).with_suffix(".pdf")) except Exception: pass
RemovePdf(r) ==
    /\ reqs[r].pc = "rm_pdf"
    /\ fs' = [fs EXCEPT !.pdf[reqs[r].tmp] = NoFile]
    /\ foreign' = foreign \cup
          (IF fs.pdf[reqs[r].tmp] \notin {NoFile, r}
           THEN {[by |-> r, of |-> fs.pdf[reqs[r].tmp], op |-> "remove"]} ELSE {})
    /\ reqs' = [reqs EXCEPT ![r].pc = "respond", ![r].tried = @ \cup {"pdf"}]
    /\ UNCHANGED variant
    /\ UNCHANGED notReq

\* return StreamingResponse(BytesIO(pdf_bytes), media_type="application/pdf"),
\* or the pending NameError reaches `except Exception`
Respond(r) ==
    /\ reqs[r].pc = "respond"
    /\ reqs' = [reqs EXCEPT ![r] =
                   IF reqs[r].exc # ""
                   THEN LogAndRaise(@, reqs[r].exc, reqs[r].exc)
                   ELSE [@ EXCEPT !.pc = "done", !.status = 200,
                                  !.body = reqs[r].pdf_bytes, !.media_type = PdfType]]
    /\ UNCHANGED <<variant, fs, foreign>>
    /\ UNCHANGED notReq

-----------------------------------------------------------------------------
(* Specifications *)

SpecDateInit == DateInit /\ MapIdle /\ mapping = None /\ RunIdle /\ PassIdle /\ ReqIdle

SpecDateNext == DateAppend \/ DateCall

SpecDate == SpecDateInit /\ [][SpecDateNext]_vars

SpecMapInit == DateIdle /\ MapInit /\ mapping = None /\ RunIdle /\ PassIdle /\ ReqIdle

SpecMapNext == BuildLocalPptx \/ BuildLocalPdf \/ BuildRemotePptx \/ BuildRemotePdf

SpecMap == SpecMapInit /\ [][SpecMapNext]_vars

SpecRunInit == DateIdle /\ MapIdle /\ RunInit /\ PassIdle /\ ReqIdle

SpecRunNext == SubstituteRun

SpecRun == SpecRunInit /\ [][SpecRunNext]_vars

SpecPassInit ==
    DateIdle /\ MapIdle /\ mapping \in PassMappings /\ RunIdle /\ PassInit /\ ReqIdle

SpecPassNext == ProcessShape \/ ProcessShapeFault

SpecPass == SpecPassInit /\ [][SpecPassNext]_vars

Init == DateIdle /\ MapIdle /\ mapping = None /\ RunIdle /\ PassIdle /\ ReqInit

Next ==
    \E r \in Reqs :
        \/ Start(r)
        \/ LoadTemplate(r)
        \/ SavePptx(r)
        \/ ScratchWrite(r)
        \/ ResolveConverter(r)
        \/ RunConverter(r)
        \/ CheckProduced(r)
        \/ ReadProduced(r)
        \/ StreamPdf(r)
        \/ RemovePptx(r)
        \/ RemovePdf(r)
        \/ Respond(r)

Spec == Init /\ [][Next]_vars

-----------------------------------------------------------------------------
(* Claims about the Date Normalizer (SpecDate) and the Field Mapping (SpecMap) *)

\* the input contains a substring of the shape 4 digits, '-' or '/', 1-2
\* digits, '-' or '/', 1-2 digits
HasDateShape(t) ==
    \E i \in 1..Len(t) : \E a, b \in 1..2 :
        /\ i + 5 + a + b <= Len(t)
        /\ \A j \in 0..3 : t[i + j] \in Digits
        /\ t[i + 4] \in Separators
        /\ \A j \in 1..a : t[i + 4 + j] \in Digits
        /\ t[i + 5 + a] \in Separators
        /\ \A j \in 1..b : t[i + 5 + a + j] \in Digits

\* u is t without its leading and trailing whitespace
IsTrimOf(u, t) ==
    /\ u # <<>> => u[1] \notin Whitespace /\ u[Len(u)] \notin Whitespace
    /\ \E i \in 0..Len(t) :
          /\ i + Len(u) <= Len(t)
          /\ SubSeq(t, i + 1, i + Len(u)) = u
          /\ \A j \in 1..Len(t) : (j <= i \/ j > i + Len(u)) => t[j] \in Whitespace

\* C4 as stated: an input with no date-shaped substring is returned unchanged,
\* character for character, leading and trailing whitespace included; None
\* is returned as None.
C4_PassThroughUnchanged ==
    result # NotCalled =>
        /\ value = None => result = None
        /\ (value # None /\ ~HasDateShape(value.s)) => result = value

\* C4 amended: an input with no date-shaped substring is returned with its
\* leading and trailing whitespace removed, and otherwise character for
\* character (so unchanged when it has none); None is returned as None.
C4_PassThroughStripped ==
    result # NotCalled =>
        /\ value = None => result = None
        /\ (value # None /\ ~HasDateShape(value.s)) =>
              /\ result.kind = "str"
              /\ IsTrimOf(result.s, value.s)

C4_Witness ==
    /\ result # NotCalled
    /\ value # None
    /\ ~HasDateShape(value.s)
    /\ Len(value.s) >= 3
    /\ value.s[1] \in Whitespace
    /\ value.s[Len(value.s)] \in Whitespace
    /\ result.s # <<>>

\* C5: whichever handler builds the mapping, every date-typed field enters it
\* as the Date Normalizer's output for the payload value, so two handlers
\* given the same payload build the same mapping.
C5_DatesNormalizedEverywhere ==
    /\ \A h \in Handlers : built[h].made =>
          \A f \in DateFields : built[h].mapping[f] = format_date_dd_mm_yyyy(payload[f])
    /\ \A g, h \in Handlers :
          (built[g].made /\ built[h].made) => built[g].mapping = built[h].mapping

-----------------------------------------------------------------------------
(* Claims about the per-run substitution (SpecRun) *)

PassOverRuns == idx = Len(para)

EndsWith(t, u) == Len(u) <= Len(t) /\ SubSeq(t, Len(t) - Len(u) + 1, Len(t)) = u

StartsWith(t, u) == Len(u) <= Len(t) /\ SubSeq(t, 1, Len(u)) = u

\* the orders in which the mapping's entries can be scanned
Orders == {o \in [1..Len(KeyOrder) -> Keys] : \A k \in Keys : \E i \in DOMAIN o : o[i] = k}

\* C3: a run whose text is exactly {{K}} ends with the string form of the
\* mapping's value for K as its text (empty for None), whatever the other
\* values are, and with its font unchanged.
C3_ExactTokenBecomesValue ==
    PassOverRuns =>
        \A i \in 1..Len(para) : \A k \in Keys :
            orig[i].text = Placeholder(k) =>
                /\ para[i].text = ValueText(mapping[k])
                /\ para[i].font = orig[i].font

\* C6: a placeholder split across the two runs (a proper non-empty prefix
\* ends the first run, the rest starts the second) is not matched: after the
\* pass the first run still ends with that prefix and the second still starts
\* with that rest, for every mapping, and both runs keep their fonts.
C6_SplitTokenLeftInBothRuns ==
    (PassOverRuns /\ split.cut > 0 /\ split.cut < Len(Placeholder(split.key))) =>
        /\ EndsWith(para[1].text, SubSeq(Placeholder(split.key), 1, split.cut))
        /\ StartsWith(para[2].text,
                      SubSeq(Placeholder(split.key), split.cut + 1,
                             Len(Placeholder(split.key))))
        /\ \A i \in 1..2 : para[i].font = orig[i].font

\* a split placeholder whose key has a value, beside whole placeholders that
\* were substituted in both runs
C6_Witness ==
    /\ PassOverRuns
    /\ split.cut > 0
    /\ split.cut < Len(Placeholder(split.key))
    /\ mapping[split.key] # None
    /\ para[1].text # orig[1].text
    /\ para[2].text # orig[2].text

\* C10: scanning the mapping's entries in any order gives the run the text
\* the pass gave it.
C10_OrderIndependent ==
    PassOverRuns =>
        \A i \in 1..Len(para) : \A o \in Orders :
            ScanItems(orig[i].text, mapping, o) = para[i].text

-----------------------------------------------------------------------------
(* Claims about the per-shape loop (SpecPass) *)

PassOver == pos = PassEnd(doc)

\* every run of the shape carries the substitution of its original text and
\* its original font
FullySubstituted(now, was, m) ==
    /\ now.has_text_frame = was.has_text_frame
    /\ Len(now.paragraphs) = Len(was.paragraphs)
    /\ \A i \in 1..Len(was.paragraphs) :
          /\ Len(now.paragraphs[i]) = Len(was.paragraphs[i])
          /\ \A j \in 1..Len(was.paragraphs[i]) :
                /\ now.paragraphs[i][j].text = NewText(was.paragraphs[i][j].text, m)
                /\ now.paragraphs[i][j].font = was.paragraphs[i][j].font

\* C9: replace_placeholders never raises, a shape whose processing raised is
\* skipped, and at the end of the pass every run of every other shape, on
\* every slide, before and after a faulty one, is fully substituted.
C9_FaultyShapeIsolated ==
    /\ ~raised
    /\ PassOver =>
          \A i \in 1..Len(doc) : \A j \in 1..Len(doc[i]) :
              [slide |-> i, shape |-> j] \notin faulted =>
                  FullySubstituted(doc[i][j], origDoc[i][j], mapping)

\* a pass with a faulty shape that has a substituted text shape before it and
\* another after it
C9_Witness ==
    /\ PassOver
    /\ \E f \in faulted :
          /\ \E g \in [slide : 1..Len(doc), shape : 1..MaxShapes] :
                /\ g.slide < f.slide \/ (g.slide = f.slide /\ g.shape < f.shape)
                /\ g.shape <= Len(doc[g.slide])
                /\ g \notin faulted
                /\ doc[g.slide][g.shape] # origDoc[g.slide][g.shape]
          /\ \E g \in [slide : 1..Len(doc), shape : 1..MaxShapes] :
                /\ g.slide > f.slide \/ (g.slide = f.slide /\ g.shape > f.shape)
                /\ g.shape <= Len(doc[g.slide])
                /\ g \notin faulted
                /\ doc[g.slide][g.shape] # origDoc[g.slide][g.shape]

-----------------------------------------------------------------------------
(* Claims about the request handlers and the Document Converter (Spec) *)

ConversionFailures == {"soffice_missing", "nonzero_exit", "pdf_absent"}

Finished(r) == reqs[r].pc = "done"

\* C1: a /generate-pdf request whose conversion step failed ends with a
\* server error, both deletions attempted and neither scratch file left.
C1_NoScratchLeakOnConversionFailure ==
    \A r \in Reqs :
        (Finished(r) /\ reqs[r].failure \in ConversionFailures) =>
            /\ reqs[r].status = 500
            /\ reqs[r].tried = {"pptx", "pdf"}
            /\ fs.pptx[reqs[r].tmp] = NoFile
            /\ fs.pdf[reqs[r].tmp] = NoFile

\* C2: in both variants a /generate-pdf request whose template loaded, whose
\* converter was resolved, exited 0 and produced the .pdf ends in a 200
\* response of type application/pdf carrying the converted bytes.
C2_ConvertedRequestSucceeds ==
    \A r \in Reqs :
        (Finished(r) /\ reqs[r].converted) =>
            /\ reqs[r].status = 200
            /\ reqs[r].media_type = PdfType
            /\ reqs[r].body = r

\* C7: every request that ended in an internal failure carries status 500
\* with the failure's detail and was logged before the response.
C7_FailuresLoggedAndDetailed ==
    \A r \in Reqs :
        (Finished(r) /\ reqs[r].failure # "") =>
            /\ reqs[r].status = 500
            /\ reqs[r].detail # ""
            /\ reqs[r].logged

\* C8: no request reads or deletes a scratch .pdf that another request's
\* conversion produced (foreign records each such access), and a successful
\* /generate-pdf response carries the conversion of the request's own document.
C8_NoScratchCollision ==
    /\ foreign = {}
    /\ \A r \in Reqs :
          (Finished(r) /\ reqs[r].endpoint = "pdf" /\ reqs[r].status = 200) =>
              reqs[r].body = r

=============================================================================
